---- MODULE Spec2Model ----
(***************************************************************************)
(* Resilient stream session of the CoreCast gRPC client.                   *)
(*                                                                         *)
(* The client files under src/ (index.js, unnamed/part_001) open one       *)
(* stream and only log its 'error' and 'end' events.  The reconnecting     *)
(* variant that the reconnection guide (src/unnamed/part_000, lines 1-88)  *)
(* documents is not among the sources; only its constants and its formula  *)
(* are (part_000:9-17, 68-80).  The session manager below is therefore     *)
(* modelled from the specification (sections 3 to 7), with the documented  *)
(* constants taken from the guide.                                         *)
(***************************************************************************)
EXTENDS Integers, Sequences, FiniteSets, TLC

VARIABLES
  state,               \* Session.state (spec 3)
  attempt_count,       \* Session.attempt_count
  max_attempts,        \* Session.max_attempts (reconnection policy, spec 6)
  subscription_params, \* Session.subscription_params
  subs,                \* every Subscription opened so far, oldest first
  timer,               \* the backoff wait: "none", "pending" or "expired"
  backoff_delay,       \* delay (ms) of the backoff wait last started
  failure_reason,      \* reason exposed with Failed (spec 7)
  delivered,           \* number of Message events handed to the consumer
  reopens,             \* number of subscriptions opened after a backoff wait
  qualified,           \* the current connection counts as successful and sustained
  last_event,          \* the event the session processed last
  probe,               \* input and result of a pure function under check
  configStreamType,    \* config.stream.type (index.js:23, 177)
  pc,                  \* where the client script is: "load", "running", "exited"
  exitCode,            \* argument of process.exit (-1 while the process runs)
  stream,              \* the stream of listenToStream: "none", "open", then how far it ended
  handlers,            \* the stream.on(...) handlers are registered
  received,            \* number of 'data' events so far
  logBuffer,           \* logBuffer (index.js:12)
  logFlushInterval,    \* logFlushInterval (index.js:13): "null", "set", "cleared"
  intervalsCreated,    \* number of setInterval calls of bufferedLog
  passed,              \* every message passed to bufferedLog, in call order
  console,             \* everything written to the console, in write order
  afterLog,            \* largest logBuffer.length seen when a bufferedLog call returned
  lastHandler,         \* the handler of the client that ran last
  base58Cache,         \* base58Cache (index.js:8): its entries in insertion order
  calls,               \* number of toBase58 calls so far
  returned             \* what the last toBase58 call returned

vars == <<state, attempt_count, max_attempts, subscription_params, subs,
          timer, backoff_delay, failure_reason, delivered, reopens, qualified,
          last_event, probe, configStreamType, pc, exitCode, stream, handlers,
          received, logBuffer, logFlushInterval, intervalsCreated, passed,
          console, afterLog, lastHandler, base58Cache, calls, returned>>

sessionVars == <<state, attempt_count, max_attempts, subscription_params, subs,
                 timer, backoff_delay, failure_reason, delivered, reopens,
                 qualified, last_event>>

clientVars == <<configStreamType, pc, exitCode, stream, handlers, received,
                logBuffer, logFlushInterval, intervalsCreated, passed, console,
                afterLog, lastHandler>>

cacheVars == <<base58Cache, calls, returned>>

----------------------------------------------------------------------------
(* Bounds of the exploration *)

MaxAttemptsCfg == 3   \* largest max_attempts a session is configured with
MaxSubs == 5          \* subscriptions opened in one behaviour
MaxMsgs == 2          \* messages delivered in one behaviour
MaxAttemptArg == 12   \* largest attempt number given to delay_for

----------------------------------------------------------------------------
(* Reconnection policy constants (reconnection guide) *)

MAX_RECONNECT_ATTEMPTS == 10
INITIAL_RECONNECT_DELAY == 1000
MAX_RECONNECT_DELAY == 60000
JITTER_BOUND == 1000
UNAVAILABLE == 14

Min(a, b) == IF a <= b THEN a ELSE b

RECURSIVE Pow2(_)
Pow2(n) == IF n = 0 THEN 1 ELSE 2 * Pow2(n - 1)

----------------------------------------------------------------------------
(* Backoff policy (spec 4.1) *)

\* the delay without the max_delay ceiling
delay_for_uncapped(attempt, jitter) ==
  INITIAL_RECONNECT_DELAY * Pow2(attempt) + jitter

delay_for(attempt, jitter) ==
  Min(INITIAL_RECONNECT_DELAY * Pow2(attempt), MAX_RECONNECT_DELAY) + jitter

\* the random source: an integer number of milliseconds in [0, JITTER_BOUND)
JitterRange == 0 .. (JITTER_BOUND - 1)

\* the jitter values a session draws in the exploration (both ends of the range)
JitterSamples == {0, JITTER_BOUND - 1}

----------------------------------------------------------------------------
(* Error classification (spec 4.2, 7) *)

ConnectionDropped == <<"Connection", "dropped">>

\* phrase occurs in message as a run of consecutive words
Mentions(message, phrase) ==
  \E i \in 1 .. (Len(message) - Len(phrase) + 1) :
    \A j \in 1 .. Len(phrase) : message[i + j - 1] = phrase[j]

TransientKinds == {"unavailable", "connection_dropped", "timeout", "reset"}

\* fail-open: only the known fatal kinds are Fatal
Classify_failOpen(err) ==
  IF err.kind \in {"unauthenticated", "invalid_argument", "permission_denied",
                   "rejected"}
  THEN "Fatal"
  ELSE "Retryable"

Classify(err) ==
  IF \/ err.kind \in TransientKinds
     \/ err.code = UNAVAILABLE
     \/ Mentions(err.message, ConnectionDropped)
  THEN "Retryable"
  ELSE "Fatal"

\* Error(kind, code, message) values the transport raises in the exploration
ErrorSamples ==
  { [kind |-> "unavailable", code |-> 14,
     message |-> <<"14", "UNAVAILABLE:", "Connection", "dropped">>],
    [kind |-> "timeout", code |-> 4, message |-> <<"Deadline", "exceeded">>],
    [kind |-> "unauthenticated", code |-> 16, message |-> <<"Invalid", "token">>],
    [kind |-> "unrecognized", code |-> 99, message |-> <<>>] }

----------------------------------------------------------------------------
(* Subscription handle (spec 4.3) *)

ParamSamples ==
  { [kind |-> "dex_trades", filters |-> "programs"],
    [kind |-> "transfers", filters |-> "traders"] }

Live(s) == s.status \in {"opening", "open"}

LiveSubs == {i \in DOMAIN subs : Live(subs[i])}

\* cancel() that marks any handle cancelled, terminated or not
cancel_overwrites(s) == [s EXCEPT !.status = "cancelled"]

\* cancel(): idempotent, a no-op on a handle that already terminated
cancel(s) == IF Live(s) THEN [s EXCEPT !.status = "cancelled"] ELSE s

\* cancel of whatever subscription the session still holds
cancelActive(ss) == [i \in DOMAIN ss |-> cancel(ss[i])]

\* open(endpoint, credentials, params): the previous handle is cancelled and
\* released, then a new handle is created, not yet confirmed open
open(ss, params) ==
  Append(cancelActive(ss),
         [status |-> "opening", params |-> params])

\* the subscription the session currently owns (0: none)
Current == IF LiveSubs = {} THEN 0 ELSE CHOOSE i \in LiveSubs : TRUE

----------------------------------------------------------------------------
(* Session manager (spec 4.2) *)

NoEvent == [type |-> "none"]

\* the policies a session is configured with: small ceilings and the default
AttemptCeilings == (1 .. MaxAttemptsCfg) \cup {MAX_RECONNECT_ATTEMPTS}

Max(a, b) == IF a >= b THEN a ELSE b

\* the exploration stops retrying at this many subscriptions: never before a
\* failure run of max_attempts retries is complete
SubsCap == Max(MaxSubs, max_attempts + 1)

\* the client script not started: nothing loaded, buffered or written
ClientParked ==
  /\ configStreamType = "dex_trades"
  /\ pc = "load"
  /\ exitCode = -1
  /\ stream = "none"
  /\ handlers = FALSE
  /\ received = 0
  /\ logBuffer = <<>>
  /\ logFlushInterval = "null"
  /\ intervalsCreated = 0
  /\ passed = <<>>
  /\ console = <<>>
  /\ afterLog = 0
  /\ lastHandler = "none"

\* the address cache as the script creates it, toBase58 not called
CacheParked ==
  /\ base58Cache = <<>>
  /\ calls = 0
  /\ returned = [in |-> [kind |-> "none", bytes |-> <<>>], tag |-> "none",
                 value |-> <<>>]

\* a session as constructed, with one of the given attempt ceilings
InitWith(ceilings) ==
  /\ ClientParked
  /\ CacheParked
  /\ state = "Idle"
  /\ attempt_count = 0
  /\ max_attempts \in ceilings
  /\ subscription_params \in ParamSamples
  /\ subs = <<>>
  /\ timer = "none"
  /\ backoff_delay = 0
  /\ failure_reason = "none"
  /\ delivered = 0
  /\ reopens = 0
  /\ qualified = FALSE
  /\ last_event = NoEvent

SessionInit == InitWith(1 .. MaxAttemptsCfg) /\ probe = "none"

\* start() that is also accepted while a subscription is live and opens
\* a second one beside it
start_whileConnected ==
  /\ state \in {"Idle", "Connecting", "Streaming"}
  /\ Len(subs) < MaxSubs
  /\ state' = "Connecting"
  /\ subs' = Append(subs, [status |-> "opening", params |-> subscription_params])
  /\ qualified' = FALSE
  /\ last_event' = [type |-> "start"]
  /\ UNCHANGED <<attempt_count, max_attempts, subscription_params, timer,
                 backoff_delay, failure_reason, delivered, reopens, probe, clientVars, cacheVars>>

\* Idle -> Connecting
start ==
  /\ state = "Idle"
  /\ Len(subs) < MaxSubs
  /\ state' = "Connecting"
  /\ subs' = open(subs, subscription_params)
  /\ qualified' = FALSE
  /\ last_event' = [type |-> "start"]
  /\ UNCHANGED <<attempt_count, max_attempts, subscription_params, timer,
                 backoff_delay, failure_reason, delivered, reopens, probe, clientVars, cacheVars>>

\* the count reset as soon as the subscription is open
Opened_resetsCount ==
  /\ state = "Connecting"
  /\ Current # 0
  /\ subs[Current].status = "opening"
  /\ state' = "Streaming"
  /\ subs' = [subs EXCEPT ![Current].status = "open"]
  /\ attempt_count' = 0
  /\ last_event' = [type |-> "opened"]
  /\ UNCHANGED <<max_attempts, subscription_params, timer,
                 backoff_delay, failure_reason, delivered, reopens, qualified,
                 probe, clientVars, cacheVars>>

\* Connecting -> Streaming: the transport yields an open subscription
Opened ==
  /\ state = "Connecting"
  /\ Current # 0
  /\ subs[Current].status = "opening"
  /\ state' = "Streaming"
  /\ subs' = [subs EXCEPT ![Current].status = "open"]
  /\ last_event' = [type |-> "opened"]
  /\ UNCHANGED <<attempt_count, max_attempts, subscription_params, timer,
                 backoff_delay, failure_reason, delivered, reopens, qualified,
                 probe, clientVars, cacheVars>>

\* a Message event that leaves attempt_count as it was
Data_noReset ==
  /\ state = "Streaming"
  /\ Current # 0
  /\ delivered < MaxMsgs
  /\ delivered' = delivered + 1
  /\ qualified' = TRUE
  /\ last_event' = [type |-> "data"]
  /\ UNCHANGED <<state, attempt_count, max_attempts, subscription_params, subs,
                 timer, backoff_delay, failure_reason, reopens, probe, clientVars, cacheVars>>

\* a Message event of the active subscription: handed to the consumer, and
\* the streaming period qualifies as a successful connection
Data ==
  /\ state = "Streaming"
  /\ Current # 0
  /\ delivered < MaxMsgs
  /\ delivered' = delivered + 1
  /\ attempt_count' = 0
  /\ qualified' = TRUE
  /\ last_event' = [type |-> "data"]
  /\ UNCHANGED <<state, max_attempts, subscription_params, subs, timer,
                 backoff_delay, failure_reason, reopens, probe, clientVars, cacheVars>>

\* the minimum sustained duration of a streaming period is reached
Sustained ==
  /\ state = "Streaming"
  /\ Current # 0
  /\ ~qualified
  /\ attempt_count' = 0
  /\ qualified' = TRUE
  /\ last_event' = [type |-> "sustained"]
  /\ UNCHANGED <<state, max_attempts, subscription_params, subs, timer,
                 backoff_delay, failure_reason, delivered, reopens, probe, clientVars, cacheVars>>

\* the ceiling test the wrong way round: never retries under the ceiling
OnTermination_inverted(err, jitter) ==
  IF Classify(err) = "Retryable" /\ attempt_count >= max_attempts
  THEN /\ state' = "Backoff"
       /\ backoff_delay' = delay_for(attempt_count, jitter)
       /\ attempt_count' = attempt_count + 1
       /\ timer' = "pending"
       /\ failure_reason' = "none"
  ELSE /\ state' = "Failed"
       /\ failure_reason' =
            IF Classify(err) = "Retryable" THEN "exhausted" ELSE "fatal"
       /\ UNCHANGED <<attempt_count, timer, backoff_delay>>

\* the classification left out: any error is retried under the ceiling
OnTermination_retriesAll(err, jitter) ==
  IF attempt_count < max_attempts
  THEN /\ state' = "Backoff"
       /\ backoff_delay' = delay_for(attempt_count, jitter)
       /\ attempt_count' = attempt_count + 1
       /\ timer' = "pending"
       /\ failure_reason' = "none"
  ELSE /\ state' = "Failed"
       /\ failure_reason' =
            IF Classify(err) = "Retryable" THEN "exhausted" ELSE "fatal"
       /\ UNCHANGED <<attempt_count, timer, backoff_delay>>

\* the ceiling test off by one: one retry more than max_attempts
OnTermination_offByOne(err, jitter) ==
  IF Classify(err) = "Retryable" /\ attempt_count <= max_attempts
  THEN /\ state' = "Backoff"
       /\ backoff_delay' = delay_for(attempt_count, jitter)
       /\ attempt_count' = attempt_count + 1
       /\ timer' = "pending"
       /\ failure_reason' = "none"
  ELSE /\ state' = "Failed"
       /\ failure_reason' =
            IF Classify(err) = "Retryable" THEN "exhausted" ELSE "fatal"
       /\ UNCHANGED <<attempt_count, timer, backoff_delay>>

\* the decision on a termination with an error: retry or give up
OnTermination(err, jitter) ==
  IF Classify(err) = "Retryable" /\ attempt_count < max_attempts
  THEN /\ state' = "Backoff"
       /\ backoff_delay' = delay_for(attempt_count, jitter)
       /\ attempt_count' = attempt_count + 1
       /\ timer' = "pending"
       /\ failure_reason' = "none"
  ELSE /\ state' = "Failed"
       /\ failure_reason' =
            IF Classify(err) = "Retryable" THEN "exhausted" ELSE "fatal"
       /\ UNCHANGED <<attempt_count, timer, backoff_delay>>

\* Connecting or Streaming: the active subscription terminates with an error
Error(err) ==
  /\ state \in {"Connecting", "Streaming"}
  /\ Current # 0
  /\ (Classify(err) = "Retryable" /\ attempt_count < max_attempts)
       => Len(subs) < SubsCap
  /\ subs' = [subs EXCEPT ![Current].status = "errored"]
  /\ \E jitter \in JitterSamples : OnTermination(err, jitter)
  /\ last_event' = [type |-> "error", err |-> err, from |-> state]
  /\ UNCHANGED <<max_attempts, subscription_params, delivered, reopens,
                 qualified, probe, clientVars, cacheVars>>

\* a clean end handled like a dropped connection
End_retries ==
  /\ state = "Streaming"
  /\ Current # 0
  /\ Len(subs) < SubsCap
  /\ subs' = [subs EXCEPT ![Current].status = "ended"]
  /\ state' = "Backoff"
  /\ timer' = "pending"
  /\ last_event' = [type |-> "end"]
  /\ UNCHANGED <<attempt_count, max_attempts, subscription_params,
                 backoff_delay, failure_reason, delivered, reopens, qualified,
                 probe, clientVars, cacheVars>>

\* Streaming -> Idle: clean end-of-stream signalled by the remote
End ==
  /\ state = "Streaming"
  /\ Current # 0
  /\ subs' = [subs EXCEPT ![Current].status = "ended"]
  /\ state' = "Idle"
  /\ last_event' = [type |-> "end"]
  /\ UNCHANGED <<attempt_count, max_attempts, subscription_params, timer,
                 backoff_delay, failure_reason, delivered, reopens, qualified,
                 probe, clientVars, cacheVars>>

\* the backoff delay elapses: the expiry is queued for the session
TimerExpires ==
  /\ timer = "pending"
  /\ timer' = "expired"
  /\ last_event' = [type |-> "expiry"]
  /\ UNCHANGED <<state, attempt_count, max_attempts, subscription_params, subs,
                 backoff_delay, failure_reason, delivered, reopens, qualified,
                 probe, clientVars, cacheVars>>

\* the expiry handled without looking at the session state
BackoffElapsed_unguarded ==
  /\ timer = "expired"
  /\ timer' = "none"
  /\ Len(subs) < SubsCap
  /\ state' = "Connecting"
  /\ subs' = open(subs, subscription_params)
  /\ reopens' = reopens + 1
  /\ qualified' = FALSE
  /\ last_event' = [type |-> "timer"]
  /\ UNCHANGED <<attempt_count, max_attempts, subscription_params,
                 backoff_delay, failure_reason, delivered, probe, clientVars, cacheVars>>

\* the reopen made with another request than the session's
BackoffElapsed_otherParams ==
  /\ timer = "expired"
  /\ timer' = "none"
  /\ IF state = "Backoff"
     THEN /\ state' = "Connecting"
          /\ subs' = open(subs, CHOOSE p \in ParamSamples :
                                  p # subscription_params)
          /\ reopens' = reopens + 1
          /\ qualified' = FALSE
     ELSE UNCHANGED <<state, subs, reopens, qualified>>
  /\ last_event' = [type |-> "timer"]
  /\ UNCHANGED <<attempt_count, max_attempts, subscription_params,
                 backoff_delay, failure_reason, delivered, probe, clientVars,
                 cacheVars>>

\* Backoff -> Connecting: the session handles the expiry of the backoff wait
BackoffElapsed ==
  /\ timer = "expired"
  /\ timer' = "none"
  /\ IF state = "Backoff"
     THEN /\ state' = "Connecting"
          /\ subs' = open(subs, subscription_params)
          /\ reopens' = reopens + 1
          /\ qualified' = FALSE
     ELSE UNCHANGED <<state, subs, reopens, qualified>>
  /\ last_event' = [type |-> "timer"]
  /\ UNCHANGED <<attempt_count, max_attempts, subscription_params,
                 backoff_delay, failure_reason, delivered, probe, clientVars, cacheVars>>

\* a shutdown that leaves the active subscription open
stop_leavesStream ==
  /\ timer' = IF timer = "pending" THEN "none" ELSE timer
  /\ state' = "Stopped"
  /\ last_event' = [type |-> "stop", from |-> state]
  /\ UNCHANGED <<attempt_count, max_attempts, subscription_params, subs,
                 backoff_delay, failure_reason, delivered, reopens, qualified,
                 probe, clientVars, cacheVars>>

\* a shutdown that leaves the backoff wait running
stop_keepsTimer ==
  /\ subs' = cancelActive(subs)
  /\ state' = "Stopped"
  /\ last_event' = [type |-> "stop", from |-> state]
  /\ UNCHANGED <<attempt_count, max_attempts, subscription_params, timer,
                 backoff_delay, failure_reason, delivered, reopens, qualified,
                 probe, clientVars, cacheVars>>

\* any state -> Stopped: explicit shutdown request
stop ==
  /\ subs' = cancelActive(subs)
  /\ timer' = IF timer = "pending" THEN "none" ELSE timer
  /\ state' = "Stopped"
  /\ last_event' = [type |-> "stop", from |-> state]
  /\ UNCHANGED <<attempt_count, max_attempts, subscription_params,
                 backoff_delay, failure_reason, delivered, reopens, qualified,
                 probe, clientVars, cacheVars>>

SessionNext ==
  \/ start
  \/ Opened
  \/ Data
  \/ Sustained
  \/ \E err \in ErrorSamples : Error(err)
  \/ End
  \/ TimerExpires
  \/ BackoffElapsed
  \/ stop

SessionSpec == SessionInit /\ [][SessionNext]_vars

\* the backoff timer and the session's own handling of it always run
FairSessionSpec ==
  SessionSpec /\ WF_vars(TimerExpires) /\ WF_vars(BackoffElapsed)

----------------------------------------------------------------------------
(* A session over a transport that always fails retryably: every open fails,
   or succeeds and then fails before any message, with a transient error *)

RetryableSamples == {err \in ErrorSamples : Classify(err) = "Retryable"}

AlwaysFailingInit == InitWith(AttemptCeilings) /\ probe = "none"

AlwaysFailingNext ==
  \/ start
  \/ Opened
  \/ \E err \in RetryableSamples : Error(err)
  \/ TimerExpires
  \/ BackoffElapsed

AlwaysFailingSpec ==
  AlwaysFailingInit /\ [][AlwaysFailingNext]_vars /\ WF_vars(AlwaysFailingNext)

----------------------------------------------------------------------------
(* The backoff policy applied to every attempt number and every jitter *)

DelayInputs ==
  [fn : {"delay_for"}, attempt : 0 .. MaxAttemptArg, jitter : JitterRange,
   done : {FALSE}, delay : {0}]

BackoffPolicyInit ==
  /\ InitWith({MAX_RECONNECT_ATTEMPTS})
  /\ probe \in DelayInputs

ComputeDelay ==
  /\ ~probe.done
  /\ probe' = [probe EXCEPT !.done = TRUE,
                            !.delay = delay_for(probe.attempt, probe.jitter)]
  /\ UNCHANGED <<sessionVars, clientVars, cacheVars>>

BackoffPolicySpec == BackoffPolicyInit /\ [][ComputeDelay]_vars

----------------------------------------------------------------------------
(* The classification applied to every kind, code and message *)

ErrorKinds ==
  TransientKinds \cup
  {"unauthenticated", "invalid_argument", "permission_denied", "rejected",
   "unrecognized"}

\* the gRPC status codes and one number that is none of them
ErrorCodes == (0 .. 16) \cup {99}

MessageSamples ==
  { <<>>,
    <<"Connection", "dropped">>,
    <<"14", "UNAVAILABLE:", "Connection", "dropped">>,
    <<"Invalid", "token">>,
    <<"dropped", "Connection">> }

ErrorInputs ==
  [fn : {"Classify"},
   err : [kind : ErrorKinds, code : ErrorCodes, message : MessageSamples],
   done : {FALSE}, class : {"unclassified"}]

ClassifyInit ==
  /\ InitWith({MAX_RECONNECT_ATTEMPTS})
  /\ probe \in ErrorInputs

ClassifyError ==
  /\ ~probe.done
  /\ probe' = [probe EXCEPT !.done = TRUE, !.class = Classify(probe.err)]
  /\ UNCHANGED <<sessionVars, clientVars, cacheVars>>

ClassifySpec == ClassifyInit /\ [][ClassifyError]_vars

----------------------------------------------------------------------------
(* Properties *)

\* what the specification calls transient transport unavailability: the
\* error's kind, its gRPC code (14) or its text ("Connection dropped") says so
SignalsTransient(err) ==
  \/ err.kind \in {"unavailable", "connection_dropped", "timeout", "reset"}
  \/ err.code = 14
  \/ \E i \in 1 .. (Len(err.message) - 1) :
       err.message[i] = "Connection" /\ err.message[i + 1] = "dropped"

\* the step is the handling of a terminating error of the active subscription
ErrorStep == last_event'.type = "error"

C10_BackoffMonotonicCap ==
  probe.done
    => LET a == probe.attempt
           d == probe.delay
           grown == INITIAL_RECONNECT_DELAY * (2 ^ a)
           floor == IF grown < MAX_RECONNECT_DELAY THEN grown
                    ELSE MAX_RECONNECT_DELAY
       IN /\ floor <= d
          /\ d < floor + JITTER_BOUND
          /\ a = 0 => (1000 <= d /\ d < 2000)
          /\ a = 3 => (8000 <= d /\ d < 9000)
          /\ a = 10 => (60000 <= d /\ d < 61000)

\* C10 witness: attempt 10 with the largest jitter gives the capped delay
C10_Witness ==
  /\ probe.done
  /\ probe.attempt = 10
  /\ probe.jitter = 999
  /\ probe.delay = 60999

----------------------------------------------------------------------------
(* The client script of src/index.js (lines 1-343): one stream, its records *)
(* batched through the log buffer.  Every handler runs to completion on the *)
(* single JavaScript thread, so every handler is one action.                *)

MAX_LOG_BUFFER_SIZE == 1000

\* data events explored in one run, after those of the initial state
MaxData == 3

\* records already buffered in the initial state that starts mid-stream
Backlog == MAX_LOG_BUFFER_SIZE - 2

SupportedTypes == {"dex_trades", "dex_orders", "dex_pools", "transactions",
                   "transfers", "balances"}

\* config.stream.type as the configuration file may give it
StreamTypeSamples == SupportedTypes \cup {"blocks", ""}

\* one line on the console or in the log buffer: what it is, the number of
\* the data event it records (0 if none), and the number of messages passed
\* to bufferedLog when it was made
Entry(kind, msg, n) == [kind |-> kind, msg |-> msg, n |-> n]

LogKinds == {"data", "stats", "status"}

IsLog(e) == e.kind \in LogKinds

IsData(e) == e.kind = "data"

\* the logging state the functions below read and write
LogState ==
  [logBuffer |-> logBuffer, logFlushInterval |-> logFlushInterval,
   intervalsCreated |-> intervalsCreated, passed |-> passed,
   console |-> console, afterLog |-> afterLog]

\* console.log / console.error of one line that is not a buffered message
write(L, kind) ==
  [L EXCEPT !.console = Append(@, Entry(kind, 0, Len(L.passed)))]

\* flushLogs that writes the buffer and keeps it
flushLogs_keepsBuffer(L) ==
  IF Len(L.logBuffer) > 0
  THEN [L EXCEPT !.console = @ \o L.logBuffer]
  ELSE L

\* flushLogs(): the buffered lines joined and written in one console.log,
\* the buffer replaced by an empty one
flushLogs(L) ==
  IF Len(L.logBuffer) > 0
  THEN [L EXCEPT !.console = @ \o L.logBuffer, !.logBuffer = <<>>]
  ELSE L

\* bufferedLog that puts the message at the head of the buffer
bufferedLog_unshift(L, kind, msg) ==
  LET e == Entry(kind, msg, Len(L.passed) + 1)
      pushed == [L EXCEPT !.logBuffer = <<e>> \o @, !.passed = Append(@, e)]
      flushed == IF Len(pushed.logBuffer) >= MAX_LOG_BUFFER_SIZE
                 THEN flushLogs(pushed) ELSE pushed
      timed == IF flushed.logFlushInterval = "null"
               THEN [flushed EXCEPT !.logFlushInterval = "set",
                                    !.intervalsCreated = @ + 1]
               ELSE flushed
  IN [timed EXCEPT !.afterLog = Max(@, Len(timed.logBuffer))]

\* bufferedLog that flushes only once the buffer is over the limit
bufferedLog_flushesLate(L, kind, msg) ==
  LET e == Entry(kind, msg, Len(L.passed) + 1)
      pushed == [L EXCEPT !.logBuffer = Append(@, e), !.passed = Append(@, e)]
      flushed == IF Len(pushed.logBuffer) > MAX_LOG_BUFFER_SIZE
                 THEN flushLogs(pushed) ELSE pushed
      timed == IF flushed.logFlushInterval = "null"
               THEN [flushed EXCEPT !.logFlushInterval = "set",
                                    !.intervalsCreated = @ + 1]
               ELSE flushed
  IN [timed EXCEPT !.afterLog = Max(@, Len(timed.logBuffer))]

\* bufferedLog(message): push, flush at the size limit, create the periodic
\* flush timer if there is none
bufferedLog(L, kind, msg) ==
  LET e == Entry(kind, msg, Len(L.passed) + 1)
      pushed == [L EXCEPT !.logBuffer = Append(@, e), !.passed = Append(@, e)]
      flushed == IF Len(pushed.logBuffer) >= MAX_LOG_BUFFER_SIZE
                 THEN flushLogs(pushed) ELSE pushed
      timed == IF flushed.logFlushInterval = "null"
               THEN [flushed EXCEPT !.logFlushInterval = "set",
                                    !.intervalsCreated = @ + 1]
               ELSE flushed
  IN [timed EXCEPT !.afterLog = Max(@, Len(timed.logBuffer))]

\* the logging variables take the values of L
SetLog(L) ==
  /\ logBuffer' = L.logBuffer
  /\ logFlushInterval' = L.logFlushInterval
  /\ intervalsCreated' = L.intervalsCreated
  /\ passed' = L.passed
  /\ console' = L.console
  /\ afterLog' = L.afterLog

\* the four console.log lines listenToStream starts with
Startup(L) ==
  write(write(write(write(L, "Connecting"), "Server"), "Stream type"),
        "Filters")

\* the session part of the state, not used by the client script
SessionParked ==
  /\ state = "Idle"
  /\ attempt_count = 0
  /\ max_attempts = MAX_RECONNECT_ATTEMPTS
  /\ subscription_params = CHOOSE p \in ParamSamples : TRUE
  /\ subs = <<>>
  /\ timer = "none"
  /\ backoff_delay = 0
  /\ failure_reason = "none"
  /\ delivered = 0
  /\ reopens = 0
  /\ qualified = FALSE
  /\ last_event = NoEvent
  /\ probe = "none"

\* the script about to run, with any stream type in the configuration
ClientFresh ==
  /\ configStreamType \in StreamTypeSamples
  /\ pc = "load"
  /\ exitCode = -1
  /\ stream = "none"
  /\ handlers = FALSE
  /\ received = 0
  /\ logBuffer = <<>>
  /\ logFlushInterval = "null"
  /\ intervalsCreated = 0
  /\ passed = <<>>
  /\ console = <<>>
  /\ afterLog = 0
  /\ lastHandler = "none"

\* the script after a burst of Backlog data events that arrived before the
\* flush timer fired for the first time
ClientMidStream ==
  /\ configStreamType = "dex_trades"
  /\ pc = "running"
  /\ exitCode = -1
  /\ stream = "open"
  /\ handlers = TRUE
  /\ received = Backlog
  /\ logBuffer = [i \in 1 .. Backlog |-> Entry("data", i, i)]
  /\ logFlushInterval = "set"
  /\ intervalsCreated = 1
  /\ passed = logBuffer
  /\ console = <<Entry("Connecting", 0, 0), Entry("Server", 0, 0),
                 Entry("Stream type", 0, 0), Entry("Filters", 0, 0)>>
  /\ afterLog = Backlog
  /\ lastHandler = "data"

ClientInit ==
  /\ SessionParked
  /\ CacheParked
  /\ ClientFresh \/ ClientMidStream

\* listenToStream whose default case opens a stream as well
ListenToStream_defaultOpens ==
  /\ pc = "load"
  /\ stream' = "open"
  /\ handlers' = TRUE
  /\ pc' = "running"
  /\ SetLog(Startup(LogState))
  /\ lastHandler' = "load"
  /\ UNCHANGED <<configStreamType, exitCode, received, sessionVars, probe,
                 cacheVars>>

\* the script runs to the end of its first turn: listenToStream() in the try
\* block, process.exit(1) if it throws
ListenToStream ==
  /\ pc = "load"
  /\ IF configStreamType \in SupportedTypes
     THEN /\ stream' = "open"
          /\ handlers' = TRUE
          /\ pc' = "running"
          /\ SetLog(Startup(LogState))
          /\ UNCHANGED exitCode
     ELSE /\ SetLog(write(Startup(LogState), "Failed to start stream"))
          /\ pc' = "exited"
          /\ exitCode' = 1
          /\ UNCHANGED <<stream, handlers>>
  /\ lastHandler' = "load"
  /\ UNCHANGED <<configStreamType, received, sessionVars, probe, cacheVars>>

\* more data events fit in the exploration
DataBudgetLeft ==
  IF received >= Backlog THEN received < Backlog + MaxData
  ELSE received < MaxData

\* stream.on('data'): the statistics message if 30 s have passed since the
\* last one (statsDue), then the record of the message
StreamData(statsDue) ==
  /\ pc = "running"
  /\ handlers
  /\ stream = "open"
  /\ DataBudgetLeft
  /\ received' = received + 1
  /\ LET L1 == IF statsDue THEN bufferedLog(LogState, "stats", 0) ELSE LogState
     IN SetLog(bufferedLog(L1, "data", received + 1))
  /\ lastHandler' = "data"
  /\ UNCHANGED <<configStreamType, pc, exitCode, stream, handlers,
                 sessionVars, probe, cacheVars>>

\* stream.on('error')
StreamError ==
  /\ pc = "running"
  /\ handlers
  /\ stream = "open"
  /\ stream' = "errored"
  /\ SetLog(write(write(write(flushLogs(LogState), "Stream error"),
                        "Error details"), "Error code"))
  /\ lastHandler' = "error"
  /\ UNCHANGED <<configStreamType, pc, exitCode, handlers, received,
                 sessionVars, probe, cacheVars>>

\* stream.on('end'), before or after the status of the call
StreamEnd ==
  /\ pc = "running"
  /\ handlers
  /\ stream \in {"open", "status"}
  /\ stream' = IF stream = "open" THEN "ended" ELSE "closed"
  /\ SetLog(write(flushLogs(LogState), "Stream ended"))
  /\ lastHandler' = "end"
  /\ UNCHANGED <<configStreamType, pc, exitCode, handlers, received,
                 sessionVars, probe, cacheVars>>

\* stream.on('status'): once, when the call is over
StreamStatus ==
  /\ pc = "running"
  /\ handlers
  /\ stream \in {"open", "errored", "ended"}
  /\ stream' = IF stream = "open" THEN "status" ELSE "closed"
  /\ SetLog(bufferedLog(LogState, "status", 0))
  /\ lastHandler' = "status"
  /\ UNCHANGED <<configStreamType, pc, exitCode, handlers, received,
                 sessionVars, probe, cacheVars>>

\* the callback of the periodic flush timer
FlushTimer ==
  /\ pc = "running"
  /\ logFlushInterval = "set"
  /\ SetLog(IF Len(logBuffer) > 0
            THEN [LogState EXCEPT !.console = @ \o logBuffer,
                                  !.logBuffer = <<>>]
            ELSE LogState)
  /\ lastHandler' = "timer"
  /\ UNCHANGED <<configStreamType, pc, exitCode, stream, handlers, received,
                 sessionVars, probe, cacheVars>>

\* a termination handler that exits without flushing
Shutdown_noFlush(signal) ==
  /\ pc = "running"
  /\ LET L2 == IF logFlushInterval # "null"
               THEN [LogState EXCEPT !.logFlushInterval = "cleared"]
               ELSE LogState
     IN SetLog(write(L2, "Shutting down"))
  /\ pc' = "exited"
  /\ exitCode' = 0
  /\ lastHandler' = signal
  /\ UNCHANGED <<configStreamType, stream, handlers, received, sessionVars,
                 probe, cacheVars>>

\* process.on('SIGINT') and process.on('SIGTERM'): the same handler twice
Shutdown(signal) ==
  /\ pc = "running"
  /\ LET L1 == flushLogs(LogState)
         L2 == IF L1.logFlushInterval # "null"
               THEN [L1 EXCEPT !.logFlushInterval = "cleared"]
               ELSE L1
     IN SetLog(write(L2, "Shutting down"))
  /\ pc' = "exited"
  /\ exitCode' = 0
  /\ lastHandler' = signal
  /\ UNCHANGED <<configStreamType, stream, handlers, received, sessionVars,
                 probe, cacheVars>>

SIGINT == Shutdown("SIGINT")

SIGTERM == Shutdown("SIGTERM")

ClientNext ==
  \/ ListenToStream
  \/ \E statsDue \in BOOLEAN : StreamData(statsDue)
  \/ StreamError
  \/ StreamEnd
  \/ StreamStatus
  \/ FlushTimer
  \/ SIGINT
  \/ SIGTERM

ClientSpec == ClientInit /\ [][ClientNext]_vars

\* setInterval keeps calling the flush callback while the process runs
FairClientSpec == ClientSpec /\ WF_vars(FlushTimer)

----------------------------------------------------------------------------
(* Properties of the client script *)

\* the buffered messages among the lines written to the console
Written == SelectSeq(console, IsLog)

\* the data records in the order the consumer gets them: those written,
\* then those still in the buffer
DataDelivered == SelectSeq(console \o logBuffer, IsData)

\* C12: the records of the data events reach the console in the order the
\* events were received, whatever flush writes them, and what is written is
\* never reordered afterwards.
C12_DataInReceiveOrder ==
  /\ [](\A i \in 1 .. Len(DataDelivered) - 1 :
          DataDelivered[i].msg < DataDelivered[i + 1].msg)
  /\ [][SubSeq(console', 1, Len(console)) = console]_vars

\* C12 witness: records written by the flush at the size limit, followed by
\* a later record written by the flush of the 'error' handler
C12_Witness ==
  /\ lastHandler = "error"
  /\ Len(SelectSeq(console, IsData)) > MAX_LOG_BUFFER_SIZE
  /\ logBuffer = <<>>

\* C16: the messages written, followed by those still buffered, are the
\* messages passed to bufferedLog, each once; the buffer is empty when a
\* termination handler has exited the process; the lines of a stream error
\* come after every message passed before the error; and a buffered message
\* does not stay in the buffer for ever.
C16_WrittenExactlyOnce ==
  /\ [](/\ Written \o logBuffer = passed
        /\ \A i \in 1 .. Len(passed) : passed[i].n = i
        /\ (pc = "exited" /\ exitCode = 0) => logBuffer = <<>>
        /\ \A i \in 1 .. Len(console) :
             console[i].kind = "Stream error"
               => SelectSeq(SubSeq(console, 1, i), IsLog)
                    = SubSeq(passed, 1, console[i].n))
  /\ (logBuffer # <<>>) ~> (logBuffer = <<>>)

\* C16 witness: SIGTERM after a stream error and the status that follows it,
\* with messages written by the error flush and by the SIGTERM flush
C16_Witness ==
  /\ pc = "exited"
  /\ lastHandler = "SIGTERM"
  /\ stream = "closed"
  /\ \E i \in 1 .. Len(console) :
       /\ console[i].kind = "Stream error"
       /\ console[i].n >= 2
       /\ Len(passed) > console[i].n

\* C17: with a stream type that is none of the six, the script exits with
\* status 1 in its first turn: no stream is ever opened, no stream handler
\* registered or run.
C17_UnsupportedTypeExits ==
  (configStreamType \notin SupportedTypes)
    => /\ stream = "none"
       /\ handlers = FALSE
       /\ received = 0
       /\ passed = <<>>
       /\ pc \in {"load", "exited"}
       /\ pc = "exited" => (/\ exitCode = 1
                           /\ console[Len(console)].kind = "Failed to start stream")

\* C17 witness: the script has exited on an unsupported stream type
C17_Witness ==
  /\ configStreamType = "blocks"
  /\ pc = "exited"
  /\ exitCode = 1
  /\ lastHandler = "load"

\* C18: whenever bufferedLog has returned, the buffer holds fewer than
\* MAX_LOG_BUFFER_SIZE messages, and setInterval is called at most once.
C18_BufferBounded ==
  /\ afterLog < MAX_LOG_BUFFER_SIZE
  /\ Len(logBuffer) < MAX_LOG_BUFFER_SIZE
  /\ intervalsCreated <= 1
  /\ (passed # <<>>) => intervalsCreated = 1

\* C18 witness: a data event brought the buffer to the limit and flushed it
C18_Witness ==
  /\ lastHandler = "data"
  /\ logBuffer = <<>>
  /\ Len(Written) = MAX_LOG_BUFFER_SIZE
  /\ afterLog = MAX_LOG_BUFFER_SIZE - 1
  /\ intervalsCreated = 1

----------------------------------------------------------------------------
(* The address cache of src/index.js (lines 7-9, 26-52).  A Map keeps its  *)
(* keys in insertion order: base58Cache is the sequence of its entries,    *)
(* each with the number of the call that inserted it.                      *)

MAX_CACHE_SIZE == 10000

\* toBase58 calls explored in one run, after those of the initial state
MaxCalls == 3

\* the two-byte value number k
BytesOf(k) == <<k \div 256, k % 256>>

\* Buffer.from(bytes).toString('hex'), as the sequence of its hex digits
Hex(bytes) ==
  [i \in 1 .. 2 * Len(bytes) |->
     IF i % 2 = 1 THEN bytes[(i + 1) \div 2] \div 16 ELSE bytes[i \div 2] % 16]

RECURSIVE LeadingZeros(_)
LeadingZeros(bytes) ==
  IF bytes = <<>> \/ Head(bytes) # 0 THEN 0 ELSE 1 + LeadingZeros(Tail(bytes))

RECURSIVE BigEndian(_)
BigEndian(bytes) ==
  IF bytes = <<>> THEN 0
  ELSE 256 * BigEndian(SubSeq(bytes, 1, Len(bytes) - 1)) + bytes[Len(bytes)]

RECURSIVE Digits58(_)
Digits58(n) == IF n = 0 THEN <<>> ELSE Append(Digits58(n \div 58), n % 58)

\* bs58.encode(bytes), as the sequence of the alphabet indexes of its
\* characters: one '1' (index 0) per leading zero byte, then the number in
\* base 58
bs58encode(bytes) ==
  [i \in 1 .. LeadingZeros(bytes) |-> 0] \o Digits58(BigEndian(bytes))

\* base58Cache.has(key)
MapHas(m, key) == \E i \in DOMAIN m : m[i].key = key

\* base58Cache.get(key)
MapGet(m, key) == m[CHOOSE i \in DOMAIN m : m[i].key = key].value

\* an argument of toBase58: nothing, a Buffer or array of bytes, or a string
\* (whose bytes Buffer.from takes and bs58.encode refuses)
Arg(kind, bytes) == [kind |-> kind, bytes |-> bytes]

CacheInputs ==
  {Arg("missing", <<>>), Arg("buffer", <<>>),
   Arg("buffer", BytesOf(1)), Arg("buffer", BytesOf(MAX_CACHE_SIZE - 1)),
   Arg("buffer", BytesOf(MAX_CACHE_SIZE + 1)),
   Arg("buffer", BytesOf(MAX_CACHE_SIZE + 2)),
   Arg("string", BytesOf(1)), Arg("string", BytesOf(MAX_CACHE_SIZE + 3))}

Result(in, cache, tag, value) ==
  [cache |-> cache, returned |-> [in |-> in, tag |-> tag, value |-> value]]

\* toBase58 that moves an entry it finds to the end of the Map
toBase58_refreshesOnHit(in, n) ==
  IF in.kind = "missing" \/ Len(in.bytes) = 0
  THEN Result(in, base58Cache, "undefined", <<>>)
  ELSE LET cacheKey == Hex(in.bytes)
       IN IF MapHas(base58Cache, cacheKey)
          THEN LET i == CHOOSE j \in DOMAIN base58Cache :
                          base58Cache[j].key = cacheKey
               IN Result(in,
                         Append(SubSeq(base58Cache, 1, i - 1)
                                  \o SubSeq(base58Cache, i + 1, Len(base58Cache)),
                                base58Cache[i]),
                         "address", base58Cache[i].value)
          ELSE IF in.kind # "buffer"
          THEN Result(in, base58Cache, "invalid_address", <<>>)
          ELSE LET result == bs58encode(in.bytes)
                   kept == IF Len(base58Cache) >= MAX_CACHE_SIZE
                           THEN Tail(base58Cache) ELSE base58Cache
               IN Result(in,
                         Append(kept, [key |-> cacheKey, value |-> result,
                                       born |-> n]),
                         "address", result)

\* toBase58(bytes), called as call number n
toBase58(in, n) ==
  IF in.kind = "missing" \/ Len(in.bytes) = 0
  THEN Result(in, base58Cache, "undefined", <<>>)
  ELSE LET cacheKey == Hex(in.bytes)
       IN IF MapHas(base58Cache, cacheKey)
          THEN Result(in, base58Cache, "address",
                      MapGet(base58Cache, cacheKey))
          ELSE IF in.kind # "buffer"
          THEN Result(in, base58Cache, "invalid_address", <<>>)
          ELSE LET result == bs58encode(in.bytes)
                   kept == IF Len(base58Cache) >= MAX_CACHE_SIZE
                           THEN Tail(base58Cache) ELSE base58Cache
               IN Result(in,
                         Append(kept, [key |-> cacheKey, value |-> result,
                                       born |-> n]),
                         "address", result)

\* the cache after toBase58 calls with the values 1 .. n, all different
CacheFilled(n) ==
  [i \in 1 .. n |-> [key |-> Hex(BytesOf(i)), value |-> bs58encode(BytesOf(i)),
                     born |-> i]]

CacheSizes == {0, MAX_CACHE_SIZE - 1}

CacheInit ==
  /\ SessionParked
  /\ ClientParked
  /\ \E n \in CacheSizes :
       /\ base58Cache = CacheFilled(n)
       /\ calls = n
  /\ returned = [in |-> Arg("none", <<>>), tag |-> "none", value |-> <<>>]

\* one call of toBase58
ToBase58(in) ==
  /\ \/ calls < MaxCalls
     \/ calls >= MAX_CACHE_SIZE - 1 /\ calls < MAX_CACHE_SIZE - 1 + MaxCalls
  /\ calls' = calls + 1
  /\ LET r == toBase58(in, calls + 1)
     IN /\ base58Cache' = r.cache
        /\ returned' = r.returned
  /\ UNCHANGED <<sessionVars, probe, clientVars>>

CacheNext == \E in \in CacheInputs : ToBase58(in)

CacheSpec == CacheInit /\ [][CacheNext]_vars

\* the entry of base58Cache' that is not in base58Cache
Inserted == base58Cache'[Len(base58Cache')]

\* C19: the cache never holds more than MAX_CACHE_SIZE entries; a call with
\* missing or empty bytes, one that finds its key, and one whose encoding
\* fails leave the cache as it is, order included; an insertion into a full
\* cache removes one entry, the one inserted earliest, and nothing else.
C19_CacheBounded ==
  /\ [](/\ Len(base58Cache) <= MAX_CACHE_SIZE
        /\ \A i \in 1 .. Len(base58Cache) - 1 :
             /\ base58Cache[i].born < base58Cache[i + 1].born
             /\ base58Cache[i].key # base58Cache[i + 1].key)
  /\ [][LET in == returned'.in
            hit == MapHas(base58Cache, Hex(in.bytes))
        IN /\ (in.kind = "missing" \/ in.bytes = <<>>)
                => (base58Cache' = base58Cache /\ returned'.tag = "undefined")
           /\ (in.bytes # <<>> /\ hit)
                => /\ base58Cache' = base58Cache
                   /\ returned'.value = MapGet(base58Cache, Hex(in.bytes))
           /\ returned'.tag = "invalid_address"
                => (base58Cache' = base58Cache /\ in.kind = "string")
           /\ (in.kind = "buffer" /\ in.bytes # <<>> /\ ~hit)
                => /\ Inserted = [key |-> Hex(in.bytes),
                                  value |-> bs58encode(in.bytes),
                                  born |-> calls']
                   /\ returned'.value = Inserted.value
                   /\ IF Len(base58Cache) >= MAX_CACHE_SIZE
                      THEN /\ Len(base58Cache') = Len(base58Cache)
                           /\ \A i \in 2 .. Len(base58Cache) :
                                /\ base58Cache'[i - 1] = base58Cache[i]
                                /\ base58Cache[1].born < base58Cache[i].born
                           /\ ~MapHas(base58Cache', base58Cache[1].key)
                      ELSE base58Cache' = Append(base58Cache, Inserted)]_vars

\* C19 witness: the cache filled up, its oldest entry was found by a call,
\* and the next insertion evicted that entry all the same
C19_Witness ==
  /\ Len(base58Cache) = MAX_CACHE_SIZE
  /\ calls = MAX_CACHE_SIZE + 2
  /\ base58Cache[1].born = 2
  /\ base58Cache[Len(base58Cache)].born = calls
  /\ base58Cache[Len(base58Cache) - 1].born = MAX_CACHE_SIZE

====
